---- MODULE Spec2Model ----
(***************************************************************************)
(* Model of the signal analysis engine: the vector class (vector.py), the  *)
(* helpers of common_lib.py, the signal_process and statistical objects    *)
(* and the SignalAnalyzer handlers that replace vector.current.            *)
(*                                                                         *)
(* Samples are integers.  Floating point arithmetic is modelled by exact   *)
(* rational arithmetic: a mean is the pair <<sum, number_of_data>>, a      *)
(* standard deviation is represented by its square (the variance) and all  *)
(* comparisons of standard deviations are made on the squares.             *)
(* Python lists are objects on a heap, so that two names for one list      *)
(* (vector.current and vector.original_data) see each other's writes.      *)
(* An operation that raises leaves its exception name in ret.exc.          *)
(***************************************************************************)
EXTENDS Integers, Sequences, FiniteSets, TLC

VARIABLES vec, constructed, heap, original_data, current, header, n,
          filtered_count, spikes, sig_proc, stat, time_step,
          op, arg, ret, pre, original0

vars == <<vec, constructed, heap, original_data, current, header, n,
          filtered_count, spikes, sig_proc, stat, time_step,
          op, arg, ret, pre, original0>>

(***************************************************************************)
(* Bounds.                                                                 *)
(***************************************************************************)
\* longest sample sequence handed to the constructor
MaxLen == 3

\* largest filtered_count at which a filter handler is still run
MaxFilterCount == 1

\* largest absolute sample value from which an integration is still run
MaxAbs == 5

\* number of list objects that can be alive at once
NSlots == 5

\* longest constant-with-one-outlier series of the spike scenario
MaxScenarioLen == 30

\* longest series handed to the statistical and signal_process objects
MaxAnalysisLen == 21

\* longest series with flat segments handed to the stall detector
MaxStallLen == 22

\* longest of the long series on which detect_oscillations is still run
MaxOscillationLen == 110

\* longest series with an embedded wave handed to the oscillation detector
MaxWaveLen == 232

\* sample values of the constructor input
Values == {-2, 0, 5}

\* time steps the loader can hand over (even, so that integrals stay integers)
TimeSteps == {2}

(***************************************************************************)
(* Sequence helpers (Python list operations).                              *)
(***************************************************************************)
Min(a, b) == IF a < b THEN a ELSE b

Max(a, b) == IF a > b THEN a ELSE b

Abs(a) == IF a < 0 THEN -a ELSE a

\* s[a:b], 0-based, half-open, clipped to the list like a Python slice
Slice(s, a, b) == SubSeq(s, Max(a, 0) + 1, Min(b, Len(s)))

\* [x] * k
Repeat(x, k) == [i \in 1..k |-> x]

\* sum(s), added up by halves
RECURSIVE Sum(_)
Sum(s) ==
    IF Len(s) = 0 THEN 0
    ELSE IF Len(s) = 1 THEN s[1]
    ELSE Sum(SubSeq(s, 1, Len(s) \div 2))
         + Sum(SubSeq(s, Len(s) \div 2 + 1, Len(s)))

RECURSIVE InsertSorted(_, _)
InsertSorted(x, s) ==
    IF s = <<>> THEN <<x>>
    ELSE IF x <= Head(s) THEN <<x>> \o s
    ELSE <<Head(s)>> \o InsertSorted(x, Tail(s))

\* sorted(s)
RECURSIVE Sorted(_)
Sorted(s) == IF s = <<>> THEN <<>> ELSE InsertSorted(Head(s), Sorted(Tail(s)))

(***************************************************************************)
(* common_lib.py                                                           *)
(***************************************************************************)
\* padded_data(data, window_size); data[0] raises IndexError on an empty list
padded_data(data, window_size) ==
    Repeat(data[1], window_size \div 2) \o data
        \o Repeat(data[Len(data)], window_size \div 2)

\* mean_value(data, number_of_data) as the rational <<numerator, denominator>>;
\* number_of_data = 0 raises ZeroDivisionError
mean_value(data, number_of_data) == <<Sum(data), number_of_data>>

\* variance(data, number_of_data) as the rational <<numerator, denominator>>:
\* with S = sum(data) and L = len(data) the loop adds up
\* sum((x - S/nd)^2) = (nd^2 * sum(x^2) - 2*nd*S^2 + L*S^2) / nd^2, which is
\* divided by nd; for nd = L the fraction is reduced by nd
variance(data, number_of_data) ==
    LET S   == Sum(data)
        Sqq == Sum([i \in 1..Len(data) |-> data[i] * data[i]])
        nd  == number_of_data
    IN  IF Len(data) = nd
        THEN <<nd * Sqq - S * S, nd * nd>>
        ELSE <<nd * nd * Sqq - 2 * nd * S * S + Len(data) * S * S, nd * nd * nd>>

\* std_dev(variance) is the square root; the model keeps the square and
\* compares squares, which is equivalent for the non-negative values compared
std_dev(v) == v

\* a < b for non-negative rationals with positive denominators, compared by
\* their integer parts and then the reciprocals of their fractional parts
RECURSIVE RatLess(_, _)
RatLess(a, b) ==
    LET fa == a[1] \div a[2]
        fb == b[1] \div b[2]
        ra == a[1] % a[2]
        rb == b[1] % b[2]
    IN  IF fa # fb THEN fa < fb
        ELSE IF rb = 0 THEN FALSE
        ELSE IF ra = 0 THEN TRUE
        ELSE RatLess(<<b[2], rb>>, <<a[2], ra>>)

RatZero(a) == a[1] = 0

\* q * (k / m), for positive m
RatScale(a, k, m) == <<a[1] * k, a[2] * m>>

(***************************************************************************)
(* Return values: a normal return carries val, a raise carries exc.        *)
(***************************************************************************)
Return(v) == [exc |-> "None", val |-> v]

Raise(e) == [exc |-> e, val |-> <<>>]

(***************************************************************************)
(* vector.py                                                               *)
(***************************************************************************)
\* elements of the constructor's input list: a label string or a sample
Str(s) == [isstr |-> TRUE, s |-> s, x |-> 0]

Num(x) == [isstr |-> FALSE, s |-> "", x |-> x]

\* the sample values of a list of Num elements
Samples(v) == [i \in 1..Len(v) |-> v[i].x]

\* check_header(vec): <<data, header, fresh>>; fresh says that data is a new
\* list (the slice vec[1:]) and not the argument itself.  vec[0] raises
\* IndexError on an empty list.
check_header(v) ==
    IF v[1].isstr
    THEN [data |-> Samples(Tail(v)), header |-> v[1].s, fresh |-> TRUE]
    ELSE [data |-> Samples(v), header |-> "None", fresh |-> FALSE]

\* number_values(): len(self.current)
number_values(cur) == Len(cur)

\* max(int(self.n * window_ratio), minimum); the ratio is given in percent
WindowSize(count, percent, minimum) == Max((count * percent) \div 100, minimum)

\* IsSpike without the guard local_std > 0
IsSpikeNoFlatGuard(cur, padded, window_size, i) ==
    LET center_idx == window_size \div 2
    IN  \E window \in {Slice(padded, i, i + window_size)} :
        \E window_wo_center \in {Slice(window, 0, center_idx)
                                   \o Slice(window, center_idx + 1, Len(window))} :
        \E local_mean \in {mean_value(window_wo_center, Len(window_wo_center))} :
        \E local_var \in {variance(window_wo_center, Len(window_wo_center))} :
            LET n_window_center == Len(window_wo_center)
                diffnum         == Abs(n_window_center * cur[i + 1] - local_mean[1])
            IN  RatLess(RatScale(local_var, 16, 1),
                        <<diffnum * diffnum, n_window_center * n_window_center>>)

\* the test of detect_spikes for index i (0-based) of the padded data
IsSpike(cur, padded, window_size, i) ==
    LET center_idx == window_size \div 2
    IN  \E window \in {Slice(padded, i, i + window_size)} :
        \E window_wo_center \in {Slice(window, 0, center_idx)
                                   \o Slice(window, center_idx + 1, Len(window))} :
        \E local_mean \in {mean_value(window_wo_center, Len(window_wo_center))} :
        \E local_var \in {variance(window_wo_center, Len(window_wo_center))} :
            LET n_window_center == Len(window_wo_center)
                local_std       == std_dev(local_var)
                \* diff = |current[i] - local_mean|, times n_window_center
                diffnum         == Abs(n_window_center * cur[i + 1] - local_mean[1])
            IN  /\ local_std[1] > 0
                \* diff > 4.0 * local_std, both sides squared
                /\ RatLess(RatScale(local_var, 16, 1),
                           <<diffnum * diffnum, n_window_center * n_window_center>>)

\* the iterations lo .. hi - 1 of the loop `for i in range(self.n)`, in order
RECURSIVE SpikesLoop(_, _, _, _, _)
SpikesLoop(cur, padded, window_size, lo, hi) ==
    IF lo >= hi THEN <<>>
    ELSE IF hi = lo + 1
    THEN (IF IsSpike(cur, padded, window_size, lo)
          THEN <<(<<lo, cur[lo + 1]>>)>> ELSE <<>>)
    ELSE SpikesLoop(cur, padded, window_size, lo, (lo + hi) \div 2)
         \o SpikesLoop(cur, padded, window_size, (lo + hi) \div 2, hi)

\* detect_spikes(): list of [index, value]
detect_spikes(cur, count) ==
    LET window_size == WindowSize(count, 5, 10)
    IN  IF Len(cur) = 0 THEN Raise("IndexError")
        ELSE IF count = 0 THEN Raise("ZeroDivisionError")
        ELSE IF count > Len(cur) THEN Raise("IndexError")
        ELSE Return(SpikesLoop(cur, padded_data(cur, window_size),
                               window_size, 0, count))

\* filtered_data(count): the median filter, a new list
filtered_data(cur, count, fcount) ==
    LET window_size == 1 + 2 * fcount
        padded      == padded_data(cur, window_size)
    IN  IF Len(cur) = 0 THEN Raise("IndexError")
        ELSE Return([k \in 1..count |->
                       Sorted(Slice(padded, k - 1, k - 1 + window_size))
                           [window_size \div 2 + 1]])

\* restore_spikes writing each spike one place too far
RECURSIVE restore_spikes_shifted(_, _)
restore_spikes_shifted(sp, v) ==
    IF sp = <<>> THEN v
    ELSE restore_spikes_shifted(Tail(sp),
                                [v EXCEPT ![Head(sp)[1] + 2] = Head(sp)[2]])

\* restore_spikes(spikes, vec): writes every spike into vec, in place
RECURSIVE restore_spikes(_, _)
restore_spikes(sp, v) ==
    IF sp = <<>> THEN v
    ELSE restore_spikes(Tail(sp), [v EXCEPT ![Head(sp)[1] + 1] = Head(sp)[2]])

\* restore_spikes raises IndexError when a spike index is outside vec
SpikesFit(sp, v) == \A k \in 1..Len(sp) : sp[k][1] < Len(v)

\* the spikes written before the first one that does not fit
RECURSIVE FitPrefix(_, _)
FitPrefix(sp, v) ==
    IF sp = <<>> \/ Head(sp)[1] >= Len(v) THEN <<>>
    ELSE <<Head(sp)>> \o FitPrefix(Tail(sp), v)

\* moving_std < threshold for the window starting at offset i, where
\* threshold = global_std * 0.002, compared on the squares:
\* 250000 * moving_var < global_var
StallFlag(cur, window_size, global_var, i) ==
    LET w   == Slice(cur, i, i + window_size)
        var == variance(w, Len(w))
    IN  RatLess(RatScale(std_dev(var), 250000, 1), global_var)

\* the state of the run detection loop of detect_stalls before its first
\* iteration
StallsStart == [in_stall |-> FALSE, start |-> 0, stalls |-> <<>>]

\* one iteration that closes a run at the last sample of its last window
StallsStepInclusiveEnd(flags, count, window_size, i, st) ==
    IF flags[i + 1] /\ ~st.in_stall
    THEN [in_stall |-> TRUE, start |-> i, stalls |-> st.stalls]
    ELSE IF ~flags[i + 1] /\ st.in_stall
    THEN LET end == i + window_size - 2
         IN  [in_stall |-> FALSE, start |-> st.start,
              stalls |-> IF end - st.start >= 10
                         THEN Append(st.stalls, <<st.start, Min(end, count - 1)>>)
                         ELSE st.stalls]
    ELSE st

\* one iteration of `for i, flag in enumerate(stall_flags)`
StallsStep(flags, count, window_size, i, st) ==
    IF flags[i + 1] /\ ~st.in_stall
    THEN [in_stall |-> TRUE, start |-> i, stalls |-> st.stalls]
    ELSE IF ~flags[i + 1] /\ st.in_stall
    THEN LET end == i + window_size - 1
         IN  [in_stall |-> FALSE, start |-> st.start,
              stalls |-> IF end - st.start >= 10
                         THEN Append(st.stalls, <<st.start, Min(end, count - 1)>>)
                         ELSE st.stalls]
    ELSE st

\* the iterations lo .. hi - 1 of the run detection loop, in order, from
\* the state st: the state after the first half of them is computed and the
\* second half starts from it
RECURSIVE StallsLoop(_, _, _, _, _, _)
StallsLoop(flags, count, window_size, lo, hi, st) ==
    IF lo >= hi THEN st
    ELSE IF hi = lo + 1 THEN StallsStep(flags, count, window_size, lo, st)
    ELSE CHOOSE last \in
             {StallsLoop(flags, count, window_size, mid, hi, half) :
                <<mid, half>> \in
                  {<<(lo + hi) \div 2,
                     StallsLoop(flags, count, window_size, lo,
                                (lo + hi) \div 2, st)>>}} : TRUE

\* closing an open run after the loop whatever its length
StallsCloseNoMinLength(count, st) ==
    IF st.in_stall
    THEN Append(st.stalls, <<st.start, count - 1>>)
    ELSE st.stalls

\* after the loop: a run still open is closed at the last index
StallsClose(count, st) ==
    IF st.in_stall /\ (count - 1) - st.start >= 10
    THEN Append(st.stalls, <<st.start, count - 1>>)
    ELSE st.stalls

\* moving_std < threshold, one flag for each of the noffsets offsets
StallFlagList(cur, window_size, global_var, noffsets) ==
    [k \in 1..noffsets |-> StallFlag(cur, window_size, global_var, k - 1)]

\* stall_flags = moving_std < threshold, one flag for each offset of
\* range(n - window_size + 1)
StallFlags(cur, count) ==
    StallFlagList(cur, WindowSize(count, 3, 10), variance(cur, count),
                  Max(count - WindowSize(count, 3, 10) + 1, 0))

\* detect_stalls(): list of (start, end).  In the branch global_std == 0 the
\* code evaluates the name n, which is not defined in the method: NameError.
detect_stalls(cur, count) ==
    LET window_size == WindowSize(count, 3, 10)
        global_var  == variance(cur, count)
        global_std  == std_dev(global_var)
        stall_flags == StallFlags(cur, count)
    IN  IF count = 0 THEN Raise("ZeroDivisionError")
        ELSE IF RatZero(global_std) THEN Raise("NameError")
        ELSE Return(StallsClose(count,
                 StallsLoop(stall_flags, count, window_size, 0,
                            Len(stall_flags), StallsStart)))

\* scipy.signal.detrend(window): the residuals of the least squares line
\* through the points (k, window[k]), each multiplied by the positive factor
\* DetrendScale(len(window)).  With B = 2 * sum(k * y) - (L - 1) * sum(y) the
\* line is sum(y)/L + 3 * B * (2*k - L + 1) / (L * (L^2 - 1)).
DetrendScale(L) == L * (L * L - 1)

detrend(window) ==
    LET L == Len(window)
    IN  CHOOSE centered \in
            {SubSeq([k \in 1..L |->
                       L * (L * L - 1) * window[k] - (L * L - 1) * Sy
                           - 3 * B * (2 * (k - 1) - L + 1)], 1, L) :
               <<Sy, B>> \in
                 {<<Sum(window),
                    2 * Sum([k \in 1..L |-> (k - 1) * window[k]])
                        - (L - 1) * Sum(window)>>}} : TRUE

Sign(a) == IF a > 0 THEN 1 ELSE IF a < 0 THEN -1 ELSE 0

\* np.where(np.diff(signs) != 0)[0]: the 0-based positions whose sign differs
\* from the next one, ascending
RECURSIVE ZeroCrossings(_, _)
ZeroCrossings(centered, j) ==
    IF j + 2 > Len(centered) THEN <<>>
    ELSE (IF Sign(centered[j + 2]) # Sign(centered[j + 1]) THEN <<j>> ELSE <<>>)
         \o ZeroCrossings(centered, j + 1)

\* abs(max(s, key=abs)) of a non-empty list
MaxAbsIn(s) == CHOOSE m \in {Abs(s[k]) : k \in 1..Len(s)} :
                  \A k \in 1..Len(s) : Abs(s[k]) <= m

\* window = padded_data[start:end] with start = i and end = i + window_size
OscillationWindow(padded, window_size, i) == Slice(padded, i, i + window_size)

\* Python floats do not overflow on the sums of squares below; the model
\* keeps such a number as the list of its base-BigBase digits, lowest first.
BigBase == 10000

\* the digits of the number whose digit sums are s, plus the carry c
RECURSIVE BigCarry(_, _)
BigCarry(s, c) ==
    IF s = <<>>
    THEN (IF c = 0 THEN <<>>
          ELSE <<c % BigBase>> \o BigCarry(<<>>, c \div BigBase))
    ELSE <<(s[1] + c) % BigBase>> \o BigCarry(Tail(s), (s[1] + c) \div BigBase)

\* the non-negative integer x
Big(x) == BigCarry(<<x>>, 0)

BigDigit(a, i) == IF 1 <= i /\ i <= Len(a) THEN a[i] ELSE 0

BigAdd(a, b) ==
    BigCarry([i \in 1..Max(Len(a), Len(b)) |-> BigDigit(a, i) + BigDigit(b, i)], 0)

BigMul(a, b) ==
    IF a = <<>> \/ b = <<>> THEN <<>>
    ELSE BigCarry([k \in 1..Len(a) + Len(b) - 1 |->
                     Sum([i \in 1..Len(a) |-> a[i] * BigDigit(b, k - i + 1)])], 0)

\* x * x
BigSquare(x) == BigMul(Big(Abs(x)), Big(Abs(x)))

\* sum(x * x for x in s), added up digit by digit; a square of a machine
\* word has at most 6 digits
BigSumSquares(s) ==
    CHOOSE total \in
        {BigCarry([d \in 1..6 |->
                     Sum([k \in 1..Len(s) |-> BigDigit(squares[k], d)])], 0) :
           squares \in {SubSeq([k \in 1..Len(s) |-> BigSquare(s[k])],
                               1, Len(s))}} : TRUE

RECURSIVE BigTrim(_)
BigTrim(a) ==
    IF a # <<>> /\ a[Len(a)] = 0 THEN BigTrim(SubSeq(a, 1, Len(a) - 1)) ELSE a

\* a < b
BigLess(a, b) ==
    LET x == BigTrim(a)
        y == BigTrim(b)
    IN  IF Len(x) # Len(y) THEN Len(x) < Len(y)
        ELSE \E k \in 1..Len(x) :
                 /\ x[k] < y[k]
                 /\ \A j \in k + 1..Len(x) : x[j] = y[j]

\* local_std < 0.01 * global_std, on the squares: with c the residuals times
\* K, S = sum(c) and L = n_window, local_var = (L * sum(c^2) - S^2) / (L*L*K*K)
\* is below global_var / 10000
LocalStdBelow(centered, n_window, K, global_var) ==
    LET S == Sum(centered)
    IN  BigLess(BigMul(BigMul(Big(n_window), BigSumSquares(centered)),
                       BigMul(Big(10000), Big(global_var[2]))),
                BigAdd(BigMul(BigMul(Big(global_var[1]), Big(n_window * n_window)),
                              BigMul(Big(K), Big(K))),
                       BigMul(BigSquare(S),
                              BigMul(Big(10000), Big(global_var[2])))))

\* amp_std < 0.3 * amp_mean, on the squares: with m = len(amp) and A = sum(amp)
\* (m * sum(amp^2) - A^2) / m^2 < 9 * A^2 / (100 * m^2)
AmpSteady(amp) ==
    BigLess(BigMul(Big(100 * Len(amp)), BigSumSquares(amp)),
            BigMul(Big(109), BigSquare(Sum(amp))))

\* the test of detect_oscillations for the window starting at offset i, which
\* is reported when more than min_count gaps pass.  The code skips a window
\* with local_std < 0.01 * global_std before it looks at the signs; the tests
\* have no effect, so the window is reported exactly when all of them pass.
OscillationTest(padded, window_size, global_var, i, min_count) ==
    \E window \in {OscillationWindow(padded, window_size, i)} :
    \E centered \in {detrend(window)} :
    \E zc \in {ZeroCrossings(centered, 0)} :
        /\ Len(zc) > 5
        /\ ~LocalStdBelow(centered, Len(window), DetrendScale(Len(window)),
                          global_var)
        /\ \E amp \in {[j \in 1..Len(zc) - 1 |->
                          MaxAbsIn(Slice(centered, zc[j], zc[j + 1]))]} :
           \E steady \in {AmpSteady(amp)} :
               LET length == [j \in 1..Len(zc) - 1 |-> zc[j + 1] - zc[j]]
               IN  Cardinality({k \in 1..Len(length) :
                                  length[k] >= 5 /\ steady}) > min_count

\* the test with `count > 2` in the place of `count > 3`
IsOscillationThreeGaps(padded, window_size, global_var, i) ==
    OscillationTest(padded, window_size, global_var, i, 2)

\* the test of detect_oscillations for the window starting at offset i
IsOscillation(padded, window_size, global_var, i) ==
    OscillationTest(padded, window_size, global_var, i, 3)

\* the iterations lo .. hi - 1 of the loop
\* `for i in range(self.n - window_size + 1)`, in order
RECURSIVE OscillationsLoop(_, _, _, _, _)
OscillationsLoop(padded, window_size, global_var, lo, hi) ==
    IF lo >= hi THEN <<>>
    ELSE IF hi = lo + 1
    THEN (IF IsOscillation(padded, window_size, global_var, lo)
          THEN <<(<<lo, lo + window_size>>)>> ELSE <<>>)
    ELSE OscillationsLoop(padded, window_size, global_var, lo, (lo + hi) \div 2)
         \o OscillationsLoop(padded, window_size, global_var, (lo + hi) \div 2, hi)

\* detect_oscillations(window_ratio): list of [start, end]; the ratio is
\* given in percent
detect_oscillations(cur, count, percent) ==
    LET window_size == WindowSize(count, percent, 10)
    IN  IF Len(cur) = 0 THEN Raise("IndexError")
        ELSE IF count = 0 THEN Raise("ZeroDivisionError")
        ELSE CHOOSE r \in
                 {Return(OscillationsLoop(padded, window_size, global_var, 0,
                                          count - window_size + 1)) :
                    <<padded, global_var>> \in
                      {<<padded_data(cur, window_size), variance(cur, count)>>}} :
                 TRUE

(***************************************************************************)
(* signal_process.py and statistical.py.  Both objects keep               *)
(* self.vector_data = self.vector.current, the list that was current when  *)
(* the object was created, and compute from it.                            *)
(***************************************************************************)
RECURSIVE CumTrapz(_, _, _, _)
CumTrapz(data, dt, k, acc) ==
    IF k > Len(data) THEN <<>>
    ELSE LET v == acc + (dt * (data[k - 1] + data[k])) \div 2
         IN  <<v>> \o CumTrapz(data, dt, k + 1, v)

\* integral without initial=0: one value fewer than the input
integral_no_initial(vector_data, dt) ==
    IF Len(vector_data) = 0 THEN Raise("ValueError")
    ELSE Return(CumTrapz(vector_data, dt, 2, 0))

\* signal_process.integral(): cumulative_trapezoid(data, dx, initial=0) as a
\* new list; the library raises ValueError for an input without points
integral(vector_data, dt) ==
    IF Len(vector_data) = 0 THEN Raise("ValueError")
    ELSE Return(<<0>> \o CumTrapz(vector_data, dt, 2, 0))

\* statistical.mean_value(): common_lib.mean_value(self.vector_data, self.vector.n)
stat_mean_value(vector_data, count) ==
    IF count = 0 THEN Raise("ZeroDivisionError")
    ELSE Return(mean_value(vector_data, count))

\* moving_average with one window fewer
moving_average_short(vector_data, count) ==
    LET window_size == count \div 10
    IN  IF window_size = 0 THEN Raise("ZeroDivisionError")
        ELSE Return([i \in 1..count - window_size |->
                       <<Sum(Slice(vector_data, i - 1, i - 1 + window_size)),
                         window_size>>])

\* statistical.moving_average(): window_size = int(n / 10) and one average
\* sum(window) / window_size, kept as the rational <<sum, window_size>>, for
\* each i in range(n - window_size + 1); with window_size = 0 the first
\* division raises ZeroDivisionError
moving_average(vector_data, count) ==
    LET window_size == count \div 10
    IN  IF window_size = 0 THEN Raise("ZeroDivisionError")
        ELSE Return([i \in 1..count - window_size + 1 |->
                       <<Sum(Slice(vector_data, i - 1, i - 1 + window_size)),
                         window_size>>])

\* signal_process.frequencies(): rfftfreq(n, d = 1.0 / time_step), whose bin k
\* is k / (n * d), kept as the rational <<k * time_step, n>>, for
\* k = 0 .. n // 2; n = 0 raises ZeroDivisionError in 1.0 / (n * d)
frequencies(count, dt) ==
    IF count = 0 THEN Raise("ZeroDivisionError")
    ELSE Return([j \in 1..count \div 2 + 1 |-> <<(j - 1) * dt, count>>])

(***************************************************************************)
(* The heap of list objects.  A reference is a slot number, 0 is no        *)
(* object; a slot that nothing refers to is empty.                         *)
(***************************************************************************)
Refs == 1..NSlots

\* a slot no live reference uses
Alloc(live) == CHOOSE r \in Refs \ live : \A q \in Refs \ live : r <= q

\* the heap with every slot outside live emptied
Collect(h, live) == [r \in Refs |-> IF r \in live THEN h[r] ELSE <<>>]

LiveNow == {original_data, current, sig_proc, stat}

MaxAbsOf(s) == IF s = <<>> THEN 0
               ELSE CHOOSE m \in {Abs(s[i]) : i \in 1..Len(s)} :
                      \A i \in 1..Len(s) : Abs(s[i]) <= m

(***************************************************************************)
(* Construction: vector.__init__(vec).                                     *)
(***************************************************************************)
SampleLists == UNION {[1..k -> Values] : k \in 0..MaxLen}

NumList(d) == [i \in 1..Len(d) |-> Num(d[i])]

\* lists the constructor can be given: samples, with or without a label
Inputs == {NumList(d) : d \in SampleLists}
            \cup {<<Str("h")>> \o NumList(d) : d \in SampleLists}

\* the state after vector.__init__(v) and after load_signal set
\* filtered_count = 1
Construct(v, dt) ==
    /\ vec = v
    /\ time_step = dt
    /\ filtered_count = 1
    /\ spikes = <<>>
    /\ sig_proc = 0
    /\ stat = 0
    /\ op = "init"
    /\ arg = 0
    /\ pre = <<>>
    /\ IF v = <<>>
       THEN \* check_header reads vec[0]
            /\ constructed = FALSE
            /\ ret = Raise("IndexError")
            /\ heap = [r \in Refs |-> <<>>]
            /\ original_data = 0
            /\ current = 0
            /\ header = "None"
            /\ n = 0
            /\ original0 = <<>>
       ELSE LET ch == check_header(v)
            IN  /\ constructed = TRUE
                /\ ret = Return(<<>>)
                /\ original_data = 1
                \* the slice vec[1:] is a new list at every call of
                \* check_header; without a label the argument itself is kept
                /\ current = IF ch.fresh THEN 2 ELSE 1
                /\ heap = [r \in Refs |->
                             IF r = 1 \/ (r = 2 /\ ch.fresh) THEN ch.data
                             ELSE <<>>]
                /\ header = ch.header
                /\ n = number_values(ch.data)
                /\ original0 = ch.data

Init == \E v \in Inputs, dt \in TimeSteps : Construct(v, dt)

(***************************************************************************)
(* Calls of the vector's methods by any caller.                            *)
(***************************************************************************)
Frame == UNCHANGED <<vec, constructed, header, n, time_step, original0>>

\* spikes = v.detect_spikes()
DetectSpikes ==
    /\ constructed
    /\ \E r \in {detect_spikes(heap[current], n)} :
           /\ ret' = r
           /\ spikes' = IF r.exc = "None" THEN r.val ELSE spikes
    /\ op' = "detect_spikes"
    /\ arg' = 0
    /\ pre' = <<>>
    /\ UNCHANGED <<heap, original_data, current, filtered_count,
                   sig_proc, stat>>
    /\ Frame

\* v.detect_stalls()
DetectStalls ==
    /\ constructed
    /\ \E r \in {detect_stalls(heap[current], n)} : ret' = r
    /\ op' = "detect_stalls"
    /\ arg' = 0
    /\ pre' = <<>>
    /\ UNCHANGED <<heap, original_data, current, filtered_count, spikes,
                   sig_proc, stat>>
    /\ Frame

\* v.filtered_data(c); the new list is handed to the caller
FilteredData(c) ==
    /\ constructed
    /\ ret' = filtered_data(heap[current], n, c)
    /\ op' = "filtered_data"
    /\ arg' = c
    /\ pre' = heap[current]
    /\ UNCHANGED <<heap, original_data, current, filtered_count, spikes,
                   sig_proc, stat>>
    /\ Frame

\* v.restore_spikes(spikes, v.current): the list is written in place and
\* returned
RestoreSpikesCurrent ==
    /\ constructed
    /\ IF SpikesFit(spikes, heap[current])
       THEN /\ heap' = [heap EXCEPT ![current] = restore_spikes(spikes, heap[current])]
            /\ ret' = Return(restore_spikes(spikes, heap[current]))
       ELSE /\ ret' = Raise("IndexError")
            /\ heap' = [heap EXCEPT ![current] =
                          restore_spikes(FitPrefix(spikes, heap[current]), heap[current])]
    /\ op' = "restore_spikes"
    /\ arg' = 0
    /\ pre' = heap[current]
    /\ UNCHANGED <<original_data, current, filtered_count, spikes,
                   sig_proc, stat>>
    /\ Frame

\* v.restore_spikes(spikes, v.filtered_data(c)): the spikes the caller holds
\* written into a newly filtered list
RestoreSpikesFiltered(c) ==
    /\ constructed
    /\ \E f \in {filtered_data(heap[current], n, c)} :
           IF f.exc # "None"
           THEN /\ ret' = f
                /\ pre' = <<>>
           ELSE /\ pre' = f.val
                /\ ret' = IF SpikesFit(spikes, f.val)
                          THEN Return(restore_spikes(spikes, f.val))
                          ELSE Raise("IndexError")
    /\ op' = "restore_spikes"
    /\ arg' = c
    /\ UNCHANGED <<heap, original_data, current, filtered_count, spikes,
                   sig_proc, stat>>
    /\ Frame

\* sig_proc = signal_process(v, time_step)
NewSignalProcess ==
    /\ constructed
    /\ sig_proc' = current
    /\ heap' = Collect(heap, {original_data, current, stat})
    /\ op' = "signal_process"
    /\ arg' = 0
    /\ ret' = Return(<<>>)
    /\ pre' = <<>>
    /\ UNCHANGED <<original_data, current, filtered_count, spikes, stat>>
    /\ Frame

\* stat = v.statistical()
NewStatistical ==
    /\ constructed
    /\ stat' = current
    /\ heap' = Collect(heap, {original_data, current, sig_proc})
    /\ op' = "statistical"
    /\ arg' = 0
    /\ ret' = Return(<<>>)
    /\ pre' = <<>>
    /\ UNCHANGED <<original_data, current, filtered_count, spikes,
                   sig_proc>>
    /\ Frame

\* sig_proc.integral()
SigProcIntegral ==
    /\ constructed
    /\ sig_proc # 0
    /\ ret' = integral(heap[sig_proc], time_step)
    /\ op' = "sig_proc.integral"
    /\ arg' = 0
    /\ pre' = <<>>
    /\ UNCHANGED <<heap, original_data, current, filtered_count, spikes,
                   sig_proc, stat>>
    /\ Frame

\* stat.mean_value()
StatMeanValue ==
    /\ constructed
    /\ stat # 0
    /\ ret' = stat_mean_value(heap[stat], n)
    /\ op' = "stat.mean_value"
    /\ arg' = 0
    /\ pre' = <<>>
    /\ UNCHANGED <<heap, original_data, current, filtered_count, spikes,
                   sig_proc, stat>>
    /\ Frame

\* stat.moving_average()
StatMovingAverage ==
    /\ constructed
    /\ stat # 0
    /\ ret' = moving_average(heap[stat], n)
    /\ op' = "stat.moving_average"
    /\ arg' = 0
    /\ pre' = <<>>
    /\ UNCHANGED <<heap, original_data, current, filtered_count, spikes,
                   sig_proc, stat>>
    /\ Frame

\* sig_proc.frequencies()
SigProcFrequencies ==
    /\ constructed
    /\ sig_proc # 0
    /\ ret' = frequencies(n, time_step)
    /\ op' = "sig_proc.frequencies"
    /\ arg' = 0
    /\ pre' = <<>>
    /\ UNCHANGED <<heap, original_data, current, filtered_count, spikes,
                   sig_proc, stat>>
    /\ Frame

\* v.detect_oscillations(ratio), with the ratios the caller tries
WindowRatios == {5, 10}

DetectOscillations(percent) ==
    /\ constructed
    /\ \E r \in {detect_oscillations(heap[current], n, percent)} : ret' = r
    /\ op' = "detect_oscillations"
    /\ arg' = percent
    /\ pre' = <<>>
    /\ UNCHANGED <<heap, original_data, current, filtered_count, spikes,
                   sig_proc, stat>>
    /\ Frame

(***************************************************************************)
(* app_gui.py: the SignalAnalyzer handlers that touch the Series.  A       *)
(* handler in which a call raises is left at that call.                    *)
(***************************************************************************)
\* load_signal with no file chosen
LoadSignalCancelled ==
    /\ constructed
    /\ filtered_count' = 1
    /\ op' = "load_signal"
    /\ arg' = 0
    /\ ret' = Return(<<>>)
    /\ pre' = <<>>
    /\ UNCHANGED <<heap, original_data, current, spikes, sig_proc, stat>>
    /\ Frame

\* on_signal_selected
OnSignalSelected ==
    /\ constructed
    /\ filtered_count' = 0
    /\ op' = "on_signal_selected"
    /\ arg' = 0
    /\ ret' = Return(<<>>)
    /\ pre' = <<>>
    /\ UNCHANGED <<heap, original_data, current, spikes, sig_proc, stat>>
    /\ Frame

\* restore_data that leaves current as it is
RestoreDataKeepsCurrent ==
    /\ constructed
    /\ op' = "restore_data"
    /\ arg' = 0
    /\ ret' = Return(<<>>)
    /\ pre' = heap[current]
    /\ UNCHANGED <<heap, original_data, current, filtered_count, spikes,
                   sig_proc, stat>>
    /\ Frame

\* restore_data: vectors[i].current = vectors[i].original_data
RestoreData ==
    /\ constructed
    /\ current' = original_data
    /\ heap' = Collect(heap, {original_data, sig_proc, stat})
    /\ op' = "restore_data"
    /\ arg' = 0
    /\ ret' = Return(<<>>)
    /\ pre' = heap[current]
    /\ UNCHANGED <<original_data, filtered_count, spikes, sig_proc, stat>>
    /\ Frame

\* integration: vectors[i].current = signal_process(vectors[i], time_step).integral()
Integration ==
    /\ constructed
    /\ MaxAbsOf(heap[current]) <= MaxAbs
    /\ \E r \in {integral(heap[current], time_step)}, new \in {Alloc(LiveNow)} :
           IF r.exc = "None"
           THEN /\ current' = new
                /\ heap' = Collect([heap EXCEPT ![new] = r.val],
                                   {original_data, new, sig_proc, stat})
                /\ ret' = Return(<<>>)
           ELSE /\ ret' = r
                /\ UNCHANGED <<current, heap>>
    /\ op' = "integration"
    /\ arg' = 0
    /\ pre' = <<>>
    /\ UNCHANGED <<original_data, filtered_count, spikes, sig_proc, stat>>
    /\ Frame

\* detect_oscillations: the ratios 0.05 and 0.1 are tried in turn until one
\* gives intervals; then current is read at the start of the first interval
\* and at the end of the last one for the plot
GuiDetectOscillations ==
    /\ constructed
    /\ \E first \in {detect_oscillations(heap[current], n, 5)} :
       \E oscis \in {IF first.exc = "None" /\ Len(first.val) = 0
                     THEN detect_oscillations(heap[current], n, 10)
                     ELSE first} :
           /\ arg' = IF first.exc = "None" /\ Len(first.val) = 0 THEN 10 ELSE 5
           /\ ret' = IF oscis.exc # "None" THEN oscis
                     ELSE IF Len(oscis.val) = 0 THEN Return(<<>>)
                     ELSE LET x_values == <<oscis.val[1][1],
                                            oscis.val[Len(oscis.val)][2]>>
                          IN  IF x_values[2] >= Len(heap[current])
                              THEN Raise("IndexError")
                              ELSE Return(<<x_values,
                                            <<heap[current][x_values[1] + 1],
                                              heap[current][x_values[2] + 1]>> >>)
    /\ op' = "gui.detect_oscillations"
    /\ pre' = <<>>
    /\ UNCHANGED <<heap, original_data, current, filtered_count, spikes,
                   sig_proc, stat>>
    /\ Frame

\* filtered_data with a median filter that overwrites the current list
GuiFilteredDataInPlace ==
    /\ constructed
    /\ filtered_count <= MaxFilterCount
    /\ \E r \in {filtered_data(heap[current], n, filtered_count)} :
           IF r.exc = "None"
           THEN /\ heap' = [heap EXCEPT ![current] = r.val]
                /\ filtered_count' = filtered_count + 1
                /\ ret' = Return(<<>>)
           ELSE /\ ret' = r
                /\ UNCHANGED <<heap, filtered_count>>
    /\ op' = "gui.filtered_data"
    /\ arg' = 0
    /\ pre' = <<>>
    /\ UNCHANGED <<original_data, current, spikes, sig_proc, stat>>
    /\ Frame

\* filtered_data: current = vectors[i].filtered_data(filtered_count);
\* filtered_count += 1
GuiFilteredData ==
    /\ constructed
    /\ filtered_count <= MaxFilterCount
    /\ \E r \in {filtered_data(heap[current], n, filtered_count)},
          new \in {Alloc(LiveNow)} :
           IF r.exc = "None"
           THEN /\ current' = new
                /\ heap' = Collect([heap EXCEPT ![new] = r.val],
                                   {original_data, new, sig_proc, stat})
                /\ filtered_count' = filtered_count + 1
                /\ ret' = Return(<<>>)
           ELSE /\ ret' = r
                /\ UNCHANGED <<current, heap, filtered_count>>
    /\ op' = "gui.filtered_data"
    /\ arg' = 0
    /\ pre' = <<>>
    /\ UNCHANGED <<original_data, spikes, sig_proc, stat>>
    /\ Frame

\* filtered_data_keep_spikes that filters first and detects the spikes on
\* the filtered list
GuiFilteredDataKeepSpikesDetectLast ==
    /\ constructed
    /\ filtered_count <= MaxFilterCount
    /\ \E f \in {filtered_data(heap[current], n, filtered_count)},
          new \in {Alloc(LiveNow)} :
           IF f.exc # "None"
           THEN /\ ret' = f
                /\ UNCHANGED <<current, heap, filtered_count>>
           ELSE \E s \in {detect_spikes(f.val, n)} :
                IF s.exc # "None"
                THEN /\ ret' = s
                     /\ UNCHANGED <<current, heap, filtered_count>>
                ELSE /\ current' = new
                     /\ heap' = Collect([heap EXCEPT ![new] = restore_spikes(s.val, f.val)],
                                        {original_data, new, sig_proc, stat})
                     /\ filtered_count' = filtered_count + 1
                     /\ ret' = Return(<<>>)
    /\ op' = "gui.filtered_data_keep_spikes"
    /\ arg' = 0
    /\ pre' = heap[current]
    /\ UNCHANGED <<original_data, spikes, sig_proc, stat>>
    /\ Frame

\* filtered_data_keep_spikes: detect_spikes, filtered_data, restore_spikes
\* into the filtered list, current = that list; filtered_count += 1.
\* pre keeps the list that was current when the handler started.
GuiFilteredDataKeepSpikes ==
    /\ constructed
    /\ filtered_count <= MaxFilterCount
    /\ \E s \in {detect_spikes(heap[current], n)},
          f \in {filtered_data(heap[current], n, filtered_count)},
          new \in {Alloc(LiveNow)} :
           IF s.exc # "None"
           THEN /\ ret' = s
                /\ UNCHANGED <<current, heap, filtered_count>>
           ELSE IF f.exc # "None"
           THEN /\ ret' = f
                /\ UNCHANGED <<current, heap, filtered_count>>
           ELSE IF ~SpikesFit(s.val, f.val)
           THEN /\ ret' = Raise("IndexError")
                /\ UNCHANGED <<current, heap, filtered_count>>
           ELSE /\ current' = new
                /\ heap' = Collect([heap EXCEPT ![new] = restore_spikes(s.val, f.val)],
                                   {original_data, new, sig_proc, stat})
                /\ filtered_count' = filtered_count + 1
                /\ ret' = Return(<<>>)
    /\ op' = "gui.filtered_data_keep_spikes"
    /\ arg' = 0
    /\ pre' = heap[current]
    /\ UNCHANGED <<original_data, spikes, sig_proc, stat>>
    /\ Frame

(***************************************************************************)
(* Specifications.                                                         *)
(***************************************************************************)
\* the handlers of the SignalAnalyzer
GuiNext ==
    \/ LoadSignalCancelled
    \/ OnSignalSelected
    \/ RestoreData
    \/ Integration
    \/ GuiFilteredData
    \/ GuiFilteredDataKeepSpikes

\* the filter parameters the callers of the vector's methods use
ApiCounts == {0, 1}

\* the methods of the vector
ApiNext ==
    \/ DetectSpikes
    \/ DetectStalls
    \/ \E p \in WindowRatios : DetectOscillations(p)
    \/ \E c \in ApiCounts : FilteredData(c)
    \/ RestoreSpikesCurrent
    \/ \E c \in ApiCounts : RestoreSpikesFiltered(c)

\* the signal_process and statistical objects of the vector
ObjNext ==
    \/ NewSignalProcess
    \/ NewStatistical
    \/ SigProcIntegral
    \/ StatMeanValue

\* the handlers that replace vector.current
CurrentNext ==
    \/ RestoreData
    \/ Integration
    \/ GuiFilteredData
    \/ GuiFilteredDataKeepSpikes

Next == CurrentNext \/ ApiNext

\* the Series, the handlers that replace current and the callers of its methods
Spec == Init /\ [][Next]_vars

\* the Series driven by the handlers alone
SpecGui == Init /\ [][GuiNext]_vars

CallsNext ==
    \/ ApiNext
    \/ Integration
    \/ GuiFilteredData

\* the methods of the vector called on the Series as constructed and as the
\* integration and filter handlers leave it
SpecCalls == Init /\ [][CallsNext]_vars

ObjectsNext ==
    \/ RestoreData
    \/ Integration
    \/ GuiFilteredData
    \/ ObjNext

\* the Series, its signal_process and statistical objects and the handlers
\* that replace current
SpecObjects == Init /\ [][ObjectsNext]_vars

(***************************************************************************)
(* Series of up to MaxAnalysisLen samples and the statistics and spectrum  *)
(* objects made from them.                                                 *)
(***************************************************************************)
\* the sample sequences of the analysis: two repeating patterns
AnalysisList(len, p) == [i \in 1..len |-> Num(((i + p) % 3) * (p + 1) - 1)]

AnalysisInputs ==
    UNION {{AnalysisList(len, p), <<Str("h")>> \o AnalysisList(len, p)} :
             len \in 0..MaxAnalysisLen, p \in {0, 1}}

InitAnalysis == \E v \in AnalysisInputs, dt \in TimeSteps : Construct(v, dt)

AnalysisNext ==
    \/ NewStatistical
    \/ NewSignalProcess
    \/ StatMovingAverage
    \/ StatMeanValue
    \/ SigProcFrequencies
    \/ SigProcIntegral

\* the statistical and signal_process objects of Series of 0 .. MaxAnalysisLen
\* samples
SpecAnalysis == InitAnalysis /\ [][AnalysisNext]_vars

(***************************************************************************)
(* Series of 20 .. MaxStallLen samples that alternate between 0 and 1      *)
(* outside of one or two flat segments of at least 10 samples.             *)
(***************************************************************************)
\* samples a .. a + f - 1 are 2, samples b .. b + g - 1 are 3, the others
\* alternate; f = 0 or g = 0 is no segment
StallList(len, p, a, f, b, g) ==
    [i \in 1..len |->
       Num(IF a <= i - 1 /\ i - 1 < a + f THEN 2
           ELSE IF b <= i - 1 /\ i - 1 < b + g THEN 3
           ELSE (i + p) % 2)]

StallInputs ==
    UNION {
      {StallList(len, p, 0, 0, 0, 0) : p \in {0, 1}}
      \cup UNION {{StallList(len, p, a, f, 0, 0) : p \in {0, 1}, f \in 10..len - a} :
                    a \in 0..len - 10}
      \cup UNION {UNION {{StallList(len, p, a, f, b, g) :
                            p \in {0, 1}, g \in 10..len - b} :
                          b \in a + f + 1..len - 10} :
                    a \in 0..len - 10, f \in 10..len} :
      len \in 20..MaxStallLen}

InitStalls == \E v \in StallInputs, dt \in TimeSteps : Construct(v, dt)

StallsNext ==
    \/ DetectStalls
    \/ \E p \in WindowRatios : DetectOscillations(p)

\* detect_stalls and detect_oscillations on the Series with flat segments
SpecStalls == InitStalls /\ [][StallsNext]_vars

(***************************************************************************)
(* The scenario of a flat segment of 50 samples inside a long signal that  *)
(* alternates between 0 and 1, for 300 samples and for sample counts at    *)
(* which count * window_ratio has a fractional part above one half.        *)
(***************************************************************************)
LongLens == {106, 211, 300, 351}

FlatLens == {50}

\* the segment at every 25th position
LongInputs ==
    UNION {{StallList(len, p, a, f, 0, 0) :
              p \in {0, 1}, a \in {x \in 0..len - f : x % 25 = 0}} :
             len \in LongLens, f \in FlatLens}

InitLong == \E v \in LongInputs, dt \in TimeSteps : Construct(v, dt)

LongNext ==
    \/ DetectSpikes
    \/ DetectStalls
    \/ (n <= MaxOscillationLen /\ \E p \in WindowRatios : DetectOscillations(p))

\* the detectors on the long signals with one flat segment
SpecLong == InitLong /\ [][LongNext]_vars

(***************************************************************************)
(* Series of 225 .. MaxWaveLen samples that are 0 except for one wave of   *)
(* 23 samples: at window_ratio 0.1 the window has 22 samples up to a count *)
(* of 229 and 23 samples from 230 on, at 0.05 it has 11.                   *)
(***************************************************************************)
\* a wave without mean and without trend that changes sign after 1, 5, 5, 5,
\* 5 and 1 samples
Wave == <<4, -1, -2, -4, -2, -1, 4, 4, 2, 2, 2, -4,
          -2, -3, -3, -3, 3, 1, 1, 3, 2, -4, 1>>

\* the wave at samples a .. a + 22
WaveList(len, a) ==
    [i \in 1..len |->
       Num(IF a <= i - 1 /\ i - 1 < a + Len(Wave) THEN Wave[i - a] ELSE 0)]

\* the wave at the start, in the middle, and where the last and the last but
\* one window of 23 samples hold it
WaveInputs ==
    UNION {{WaveList(len, a) : a \in {0, 100, len - 35, len - 34}} :
             len \in 225..MaxWaveLen}

InitWaves == \E v \in WaveInputs, dt \in TimeSteps : Construct(v, dt)

WavesNext ==
    \/ \E p \in WindowRatios : DetectOscillations(p)
    \/ GuiDetectOscillations

\* detect_oscillations and its handler on the Series with a wave
SpecWaves == InitWaves /\ [][WavesNext]_vars

(***************************************************************************)
(* The scenario of one outlier 20 among samples 5.                         *)
(***************************************************************************)
OutlierList(len, k) == [i \in 1..len |-> IF i = k + 1 THEN Num(20) ELSE Num(5)]

ScenarioInputs ==
    UNION {{OutlierList(len, k) : k \in 0..len - 1} : len \in 20..MaxScenarioLen}

InitScenario == \E v \in ScenarioInputs, dt \in TimeSteps : Construct(v, dt)

\* detect_spikes on the scenario's Series
SpecScenario == InitScenario /\ [][DetectSpikes]_vars

(***************************************************************************)
(* Properties.                                                             *)
(***************************************************************************)
IsConstant(s) == \A i \in 1..Len(s) : s[i] = s[1]

\* C1 (as claimed): on a Series whose samples are all identical,
\* detect_stalls returns normally with the single interval (0, n - 1).
C1_ConstantIsOneStall ==
    (op = "detect_stalls" /\ n >= 1 /\ IsConstant(heap[current]))
        => ret = Return(<< <<0, n - 1>> >>)

\* the index of the single sample that is not 5
OutlierIndex(s) == CHOOSE k \in 0..Len(s) - 1 : s[k + 1] # 5

\* C2 (as claimed): on a Series of n >= 20 samples, all 5 except one 20,
\* detect_spikes returns exactly the spike [index of the outlier, 20].
C2_OutlierReported ==
    op = "detect_spikes"
        => ret = Return(<< <<OutlierIndex(heap[current]), 20>> >>)

\* C2 (amended): on a Series of n >= 20 samples, all 5 except one 20,
\* detect_spikes returns normally with an empty list: the outlier is not
\* reported, and no other sample is.
C2_OutlierMissed ==
    op = "detect_spikes" => ret = Return(<<>>)

C2_Witness ==
    /\ op = "detect_spikes"
    /\ n >= 20
    /\ heap[current][11] = 20
    /\ ret.exc = "None"

\* C3 (as claimed): original_data is element-wise equal to its value at
\* construction after any sequence of operations.
C3_OriginalNeverChanged ==
    constructed => heap[original_data] = original0

\* C4: after any sequence of filter, filter-keep-spikes and integrate
\* handlers, the restore handler leaves current element-wise equal to
\* original_data as it was at construction.
C4_RestoreRoundTrip ==
    op = "restore_data" => heap[current] = original0

C4_Witness ==
    /\ op = "restore_data"
    /\ pre # original0
    /\ filtered_count >= 2
    /\ heap[current] = original0

C6_CountIsLen ==
    constructed => n = Len(heap[current])

C6_Witness ==
    /\ op = "integration"
    /\ ret.exc = "None"
    /\ n >= 2
    /\ current # original_data

\* C7 (as claimed): when window_size >= count, each of the three detectors
\* fails with an error and returns no list.
C7_SmallCountFails ==
    /\ (op = "detect_spikes" /\ WindowSize(n, 5, 10) >= n) => ret.exc # "None"
    /\ (op = "detect_stalls" /\ WindowSize(n, 3, 10) >= n) => ret.exc # "None"
    /\ (op = "detect_oscillations" /\ WindowSize(n, arg, 10) >= n)
           => ret.exc # "None"

\* C8 (as claimed): every Series that was constructed has n >= 1.
C8_CountAtLeastOne ==
    constructed => n >= 1

\* C9 (as claimed): filtered_data(0) returns a list element-wise equal to
\* current, for every Series.
C9_FilterZeroIsIdentity ==
    (op = "filtered_data" /\ arg = 0) => ret = Return(heap[current])

\* the value restore_spikes must leave at 0-based index j: the value of the
\* spike recorded for j, the value of f elsewhere
SpikeIndices(sp) == {sp[k][1] : k \in 1..Len(sp)}

SpikeValue(sp, j) == sp[CHOOSE k \in 1..Len(sp) : sp[k][1] = j][2]

\* C10: r = restore_spikes(S, f), with S from detect_spikes, has
\* r[idx] = value for every spike (idx, value) of S and r[j] = f[j] at every
\* index j that is not a spike index.
C10_RestoreSpikesExact ==
    (op = "restore_spikes" /\ ret.exc = "None")
        => /\ Len(ret.val) = Len(pre)
           /\ \A j \in 0..Len(pre) - 1 :
                  ret.val[j + 1] = IF j \in SpikeIndices(spikes)
                                   THEN SpikeValue(spikes, j)
                                   ELSE pre[j + 1]

C10_Witness ==
    /\ op = "restore_spikes"
    /\ ret.exc = "None"
    /\ arg = 1
    /\ \E k \in 1..Len(spikes) : pre[spikes[k][1] + 1] # spikes[k][2]
    /\ \E j \in 0..Len(pre) - 1 : j \notin SpikeIndices(spikes)

\* the calls that only read the Series
ReadOnlyOps == {"detect_spikes", "detect_stalls", "detect_oscillations",
                "filtered_data"}

\* C11: detect_spikes, detect_stalls, detect_oscillations and filtered_data
\* leave current, original_data, header and n as they were, as references
\* and element by element; a list that filtered_data returns has n elements,
\* and the list the filter handler gets from it and makes current is another
\* object than the list that was current.
C11_DetectorsLeaveSeries ==
    [][/\ op' \in ReadOnlyOps
           => /\ current' = current
              /\ original_data' = original_data
              /\ heap'[current'] = heap[current]
              /\ heap'[original_data'] = heap[original_data]
              /\ header' = header
              /\ n' = n
       /\ (op' = "filtered_data" /\ ret'.exc = "None") => Len(ret'.val) = n
       /\ (op' = "gui.filtered_data" /\ ret'.exc = "None")
           => /\ current' # current
              /\ Len(heap'[current']) = n
              /\ heap'[original_data'] = heap[original_data]]_vars

C11_Witness ==
    /\ op = "filtered_data"
    /\ arg = 1
    /\ ret.exc = "None"
    /\ n >= 2
    /\ ret.val # heap[current]
    /\ current # original_data

\* C12: on a Series of n >= 10 samples moving_average returns exactly
\* n - floor(n/10) + 1 averages; on a Series of n < 10 samples it raises and
\* returns no list.
C12_MovingAverageLength ==
    op = "stat.moving_average"
        => IF n >= 10
           THEN /\ ret.exc = "None"
                /\ Len(ret.val) = n - (n \div 10) + 1
           ELSE ret.exc # "None"

C12_Witness ==
    /\ op = "stat.moving_average"
    /\ n >= 20
    /\ ret.exc = "None"
    /\ Len(ret.val) = n - 1

\* C20 (as claimed): bin k of frequencies() equals k / (n * time_step), for
\* k = 0 .. floor(n / 2).
C20_FrequencyBins ==
    (op = "sig_proc.frequencies" /\ n >= 1)
        => /\ ret.exc = "None"
           /\ Len(ret.val) = n \div 2 + 1
           /\ \A k \in 0..n \div 2 :
                  ret.val[k + 1][1] * (n * time_step) = k * ret.val[k + 1][2]

\* the leave-one-out window of detect_spikes for the sample at 0-based index i
LeaveOneOut(cur, count, i) ==
    LET window_size == WindowSize(count, 5, 10)
        window      == Slice(padded_data(cur, window_size), i, i + window_size)
        center_idx  == window_size \div 2
    IN  Slice(window, 0, center_idx) \o Slice(window, center_idx + 1, Len(window))

FlatLeaveOneOut(cur, count, i) ==
    RatZero(std_dev(variance(LeaveOneOut(cur, count, i),
                             Len(LeaveOneOut(cur, count, i)))))

\* C14: no sample that detect_spikes returns has a leave-one-out window of
\* zero standard deviation, and on a Series whose samples are all identical
\* detect_spikes returns an empty list.
C14_FlatWindowNeverSpike ==
    /\ (op = "detect_spikes" /\ ret.exc = "None")
           => \A k \in 1..Len(ret.val) :
                  ~FlatLeaveOneOut(heap[current], n, ret.val[k][1])
    /\ (op = "detect_spikes" /\ n >= 1 /\ IsConstant(heap[current]))
           => ret = Return(<<>>)

C14_Witness ==
    /\ op = "detect_spikes"
    /\ ret.exc = "None"
    /\ \E i \in 0..n - 1 :
           /\ FlatLeaveOneOut(heap[current], n, i)
           /\ heap[current][i + 1] # LeaveOneOut(heap[current], n, i)[1]
           /\ i \notin SpikeIndices(ret.val)

\* the number of consecutive in-stall offsets from offset start on
RECURSIVE RunLength(_, _)
RunLength(flags, start) ==
    IF start >= Len(flags) \/ ~flags[start + 1] THEN 0
    ELSE 1 + RunLength(flags, start + 1)

\* C15: every interval (start, end) that detect_stalls returns on a Series
\* that is not constant has 0 <= start, end <= n - 1 and end - start >= 10.
C15_StallIntervalBounds ==
    (op = "detect_stalls" /\ ret.exc = "None" /\ ~IsConstant(heap[current]))
        => \A k \in 1..Len(ret.val) :
               /\ 0 <= ret.val[k][1]
               /\ ret.val[k][2] <= n - 1
               /\ ret.val[k][2] - ret.val[k][1] >= 10

C15_Witness ==
    /\ op = "detect_stalls"
    /\ ret.exc = "None"
    /\ ~IsConstant(heap[current])
    /\ Len(ret.val) = 2
    /\ ret.val[1][2] < ret.val[2][1]
    /\ ret.val[2][2] = n - 1

\* C17 (as claimed): the run of in-stall offsets behind every interval that
\* detect_stalls returns contains at least 10 offsets.
C17_ShortRunNotReported ==
    (op = "detect_stalls" /\ ret.exc = "None")
        => \A k \in 1..Len(ret.val) :
               RunLength(StallFlags(heap[current], n), ret.val[k][1]) >= 10

\* C18 (as claimed): for a run of in-stall offsets that begins at offset
\* run_start and ends before the scan ends, the interval that detect_stalls
\* returns is (run_start, min(run_start + window_size - 1, n - 1)).
C18_IntervalIsFirstWindow ==
    (op = "detect_stalls" /\ ret.exc = "None")
        => \A k \in 1..Len(ret.val) :
               LET flags     == StallFlags(heap[current], n)
                   run_start == ret.val[k][1]
               IN  run_start + RunLength(flags, run_start) < Len(flags)
                   => ret.val[k] =
                         <<run_start,
                           Min(run_start + WindowSize(n, 3, 10) - 1, n - 1)>>

\* C18 (amended): for a run of in-stall offsets that begins at offset
\* run_start, holds run_length offsets and ends before the scan ends, the
\* interval that detect_stalls returns is
\* (run_start, run_start + run_length + window_size - 1): it ends one index
\* after the last window of the run, which is at most n - 1.
C18_IntervalSpansRun ==
    (op = "detect_stalls" /\ ret.exc = "None")
        => \A k \in 1..Len(ret.val) :
               LET flags     == StallFlags(heap[current], n)
                   run_start == ret.val[k][1]
                   run_end   == run_start + RunLength(flags, run_start)
               IN  run_end < Len(flags)
                   => /\ ret.val[k] = <<run_start, run_end + WindowSize(n, 3, 10) - 1>>
                      /\ ret.val[k][2] <= n - 1

C18_Witness ==
    /\ op = "detect_stalls"
    /\ ret.exc = "None"
    /\ Len(ret.val) >= 1
    /\ LET flags     == StallFlags(heap[current], n)
           run_start == ret.val[1][1]
       IN  /\ RunLength(flags, run_start) >= 2
           /\ run_start + RunLength(flags, run_start) < Len(flags)

\* C19 (as claimed): the window that detect_oscillations evaluates for start
\* offset i, 0 <= i <= n - window_size, consists of exactly the samples
\* current[i], ..., current[i + window_size - 1] of the region it reports.
C19_WindowIsReportedRegion ==
    (op = "detect_oscillations" /\ ret.exc = "None")
        => LET window_size == WindowSize(n, arg, 10)
           IN  \A i \in 0..n - window_size :
                   OscillationWindow(padded_data(heap[current], window_size),
                                     window_size, i)
                       = Slice(heap[current], i, i + window_size)

\* the first index of the segment of 50 identical samples
FlatStart(cur) ==
    CHOOSE a \in 0..Len(cur) - 50 :
        \A i \in a..a + 49 : cur[i + 1] = cur[a + 1]

\* cur has a segment of 50 identical samples, and no window that is not
\* fully inside it has a local std below the threshold
OneFlatSegment(cur, count) ==
    /\ \E a \in 0..Len(cur) - 50 : \A i \in a..a + 49 : cur[i + 1] = cur[a + 1]
    /\ \E flags \in {StallFlags(cur, count)} :
           \A i \in 0..Len(flags) - 1 :
               flags[i + 1] => (FlatStart(cur) <= i /\ i + 9 <= FlatStart(cur) + 49)

\* C13 (as claimed): on a Series of 300 samples with one flat segment of 50
\* samples at indices a .. a + 49 and no in-stall window outside of it,
\* detect_stalls returns exactly one interval (start, end), and start and
\* end both lie in a .. a + 49.
C13_OneStallInsideSegment ==
    (op = "detect_stalls" /\ n = 300 /\ OneFlatSegment(heap[current], n))
        => /\ ret.exc = "None"
           /\ Len(ret.val) = 1
           /\ \A k \in 1..Len(ret.val) :
                  /\ FlatStart(heap[current]) <= ret.val[k][1]
                  /\ ret.val[k][1] <= FlatStart(heap[current]) + 49
                  /\ FlatStart(heap[current]) <= ret.val[k][2]
                  /\ ret.val[k][2] <= FlatStart(heap[current]) + 49

\* C13 (amended): on a Series of 300 samples with one flat segment of 50
\* samples at indices a .. a + 49 and no in-stall window outside of it,
\* detect_stalls returns exactly one interval (start, end) with start = a
\* and end = min(a + 50, 299): the first index after the segment, or the
\* last index of the Series when the segment ends there.
C13_OneStallPastSegment ==
    (op = "detect_stalls" /\ n = 300 /\ OneFlatSegment(heap[current], n))
        => ret = Return(<< <<FlatStart(heap[current]),
                             Min(FlatStart(heap[current]) + 50, 299)>> >>)

C13_Witness ==
    /\ op = "detect_stalls"
    /\ n = 300
    /\ OneFlatSegment(heap[current], n)
    /\ FlatStart(heap[current]) = 100
    /\ ret = Return(<< <<100, 150>> >>)

\* the integers nearest to num / den (two of them when num / den is halfway)
Nearest(num, den) ==
    {k \in (num \div den)..(num \div den) + 1 : 2 * Abs(k * den - num) <= den}

\* max(round(count * percent / 100), 10)
RoundedWindowSizes(count, percent) ==
    {Max(r, 10) : r \in Nearest(count * percent, 100)}

\* C16 (as claimed): the window size of detect_spikes is
\* max(round(n * 0.05), 10), that of detect_stalls is max(round(n * 0.03), 10)
\* and that of detect_oscillations(window_ratio) is
\* max(round(n * window_ratio), 10), with round the nearest integer.
C16_WindowSizeRounded ==
    /\ op = "detect_spikes" => WindowSize(n, 5, 10) \in RoundedWindowSizes(n, 5)
    /\ op = "detect_stalls" => WindowSize(n, 3, 10) \in RoundedWindowSizes(n, 3)
    /\ op = "detect_oscillations"
           => WindowSize(n, arg, 10) \in RoundedWindowSizes(n, arg)

\* the median of the filter window of 0-based index j: sorted(window)[w // 2]
\* of the w = 1 + 2 * fcount padded samples around j
WindowMedian(cur, fcount, j) ==
    LET window_size == 1 + 2 * fcount
        window      == Slice(padded_data(cur, window_size), j, j + window_size)
    IN  CHOOSE m \in {window[k] : k \in 1..window_size} :
            /\ Cardinality({k \in 1..window_size : window[k] < m})
                   <= window_size \div 2
            /\ Cardinality({k \in 1..window_size : window[k] <= m})
                   > window_size \div 2

\* the 0-based indices detect_spikes flags on cur
DetectedSpikeIndices(cur, count) ==
    {j \in 0..count - 1 :
       IsSpike(cur, padded_data(cur, WindowSize(count, 5, 10)),
               WindowSize(count, 5, 10), j)}

\* C21: a filter-keep-spikes handler that completes leaves as current a list
\* of n elements that holds, at every index detect_spikes flags on the list
\* that was current before, the sample of that list, and at every other index
\* the median filter output of that list; the list that was current before is
\* not written.
C21_KeepSpikesOrder ==
    [][(op' = "gui.filtered_data_keep_spikes" /\ ret'.exc = "None")
          => /\ Len(heap'[current']) = Len(heap[current])
             /\ \A j \in 0..Len(heap[current]) - 1 :
                    heap'[current'][j + 1] =
                        IF j \in DetectedSpikeIndices(heap[current], n)
                        THEN heap[current][j + 1]
                        ELSE WindowMedian(heap[current], filtered_count, j)
             /\ current' # current
             /\ heap'[original_data'] = heap[original_data]]_vars

\* a completed filter-keep-spikes handler whose median filter would have
\* replaced a detected spike, next to an index that is no spike
C21_Witness ==
    /\ op = "gui.filtered_data_keep_spikes"
    /\ ret.exc = "None"
    /\ \E j \in DetectedSpikeIndices(pre, n) :
           /\ heap[current][j + 1] = pre[j + 1]
           /\ WindowMedian(pre, filtered_count - 1, j) # pre[j + 1]
    /\ \E j \in 0..n - 1 : j \notin DetectedSpikeIndices(pre, n)

\* the gaps between the consecutive sign changes of the detrended window
\* that detect_oscillations tests for offset i
WindowGaps(cur, count, percent, i) ==
    LET window_size == WindowSize(count, percent, 10)
        zc == ZeroCrossings(detrend(OscillationWindow(
                  padded_data(cur, window_size), window_size, i)), 0)
    IN  [j \in 1..Len(zc) - 1 |-> zc[j + 1] - zc[j]]

\* C22: every window detect_oscillations reports has at least 6 sign changes
\* and at least 4 gaps of 5 or more samples between consecutive ones, and a
\* call with a window_size of 22 or less that returns, returns the empty list.
C22_ShortWindowNeverReported ==
    (op = "detect_oscillations" /\ ret.exc = "None")
        => /\ \A k \in 1..Len(ret.val) :
                  \E gaps \in {WindowGaps(heap[current], n, arg, ret.val[k][1])} :
                      /\ Len(gaps) + 1 >= 6
                      /\ Cardinality({j \in 1..Len(gaps) : gaps[j] >= 5}) >= 4
           /\ WindowSize(n, arg, 10) <= 22 => ret.val = <<>>

\* a call with a window of 22 samples, one of which holds six sign changes
\* and three gaps of 5 samples, that returns the empty list
C22_Witness ==
    /\ op = "detect_oscillations"
    /\ ret = Return(<<>>)
    /\ WindowSize(n, arg, 10) = 22
    /\ \E i \in 0..n - 22 :
           \E gaps \in {WindowGaps(heap[current], n, arg, i)} :
               /\ Len(gaps) + 1 >= 6
               /\ Cardinality({j \in 1..Len(gaps) : gaps[j] >= 5}) = 3

\* C23 (as claimed): every interval detect_oscillations returns has
\* 0 <= start < end <= n - 1.
C23_IntervalsAreIndices ==
    (op = "detect_oscillations" /\ ret.exc = "None")
        => \A k \in 1..Len(ret.val) :
               /\ 0 <= ret.val[k][1]
               /\ ret.val[k][1] < ret.val[k][2]
               /\ ret.val[k][2] <= n - 1

====
